---- MODULE Spec2Model ----
(***************************************************************************)
(* x402 Stellar facilitator: the /verify and /settle route handlers, the   *)
(* exact-scheme verify() and settle() functions, the Redis-backed replay   *)
(* store with its in-memory fallback, and the Redis connection flags.      *)
(* The ledger (Horizon) is the environment: it answers every account       *)
(* lookup and every submission with one of the outcomes it can produce.    *)
(***************************************************************************)
EXTENDS Integers, Sequences, FiniteSets, TLC

\* ------------------------------------------------------------------------
\* Bounds of the model
\* ------------------------------------------------------------------------
NProcs == 2
MaxCalls == 2

Procs == 1..NProcs

\* ------------------------------------------------------------------------
\* Signed envelopes (signedTxXdr).  An envelope is what the client signed:
\* the payment it really makes.  kind "none" is an absent signedTxXdr and
\* kind "bad" a string TransactionBuilder.fromXDR cannot parse.  feeSource
\* "caller" marks an envelope that is itself a fee-bump transaction.
\* ------------------------------------------------------------------------
Envelope(k, i, f, s, d, a, t) ==
  [kind |-> k, id |-> i, feeSource |-> f, source |-> s, destination |-> d,
   amount |-> a, asset |-> t]

NoXdr == Envelope("none", 0, "none", "", "", 0, "")
BadXdr == Envelope("bad", 0, "none", "", "", 0, "")
EnvGood == Envelope("tx", 1, "none", "S1", "DEST", 10, "native")
EnvWrongDest == Envelope("tx", 2, "none", "S1", "OTHER", 10, "native")
EnvLowAmount == Envelope("tx", 3, "none", "S1", "DEST", 9, "native")
EnvWrongAsset == Envelope("tx", 4, "none", "S1", "DEST", 10, "USDC")
EnvCallerBump == Envelope("tx", 1, "caller", "S1", "DEST", 10, "native")

NoHash == <<0, "">>

\* tx.hash(): one hash per distinct signed transaction; a fee-bump
\* transaction hashes to something else than the transaction it wraps.
Hash(x) == <<x.id, x.feeSource>>

SCHEME == "exact"
STELLAR_NETWORKS == {"stellar-testnet", "stellar"}

\* getTxHashFromXdr: the hash of the parsed envelope, null if parsing fails.
getTxHashFromXdr(x) == IF x.kind = "tx" THEN Hash(x) ELSE NoHash

\* ------------------------------------------------------------------------
\* Requests
\* ------------------------------------------------------------------------
StellarPayload(x, s, a, d, t) ==
  [signedTxXdr |-> x, sourceAccount |-> s, amount |-> a, destination |-> d,
   asset |-> t]

\* The payload whose claimed fields repeat what the envelope says.
Honest(x) == StellarPayload(x, x.source, x.amount, x.destination, x.asset)

\* The payload that claims the terms the resource server asks for.
Favourable(x) == StellarPayload(x, "S1", 10, "DEST", "native")

PaymentPayload(sp) ==
  [scheme |-> SCHEME, network |-> "stellar-testnet", payload |-> sp]

PaymentRequirements(res) ==
  [scheme |-> SCHEME, network |-> "stellar-testnet", maxAmountRequired |-> 10,
   resource |-> res, payTo |-> "DEST", asset |-> "native"]

Resources == {"/x", "/y"}

RoutePayloads ==
  {PaymentPayload(Honest(EnvGood)), PaymentPayload(Honest(EnvCallerBump)),
   PaymentPayload(Favourable(EnvWrongDest)), PaymentPayload(Honest(NoXdr)),
   PaymentPayload(Honest(BadXdr))}

NoPayload == PaymentPayload(Honest(NoXdr))
NoRequirements == PaymentRequirements("")

\* ------------------------------------------------------------------------
\* Responses
\* ------------------------------------------------------------------------
SettleResponse(ok, reason, payer, tx, net) ==
  [success |-> ok, errorReason |-> reason, payer |-> payer,
   transaction |-> tx, network |-> net]

VerifyResponse(ok, reason, payer) ==
  [isValid |-> ok, invalidReason |-> reason, payer |-> payer]

NoSettle == SettleResponse(FALSE, "", "", NoHash, "")
NoVerify == VerifyResponse(FALSE, "", "")

VARIABLES
  sponsor,        \* FACILITATOR_SECRET_KEY is set
  redisClient,    \* redis.ts redisClient is not null
  isOpen,         \* redisClient.isOpen
  isConnected,    \* redis.ts isConnected
  booted,         \* startServer has awaited connectRedis and listens
  everReady,      \* the Redis client has been ready at some time
  redisStore,     \* records held by Redis, keyed by transaction hash
  memoryStore,    \* replay-store.ts memoryStore
  applied,        \* hashes of the transactions the ledger has applied
  pc,             \* position of each request handler
  route,          \* "settle" or "verify"
  payload,        \* the request's paymentPayload
  requirements,   \* the request's paymentRequirements
  sres,           \* the /settle response sent with res.json
  vres,           \* the /verify response sent with res.json
  inflight,       \* the transaction handed to server.submitTransaction
  submitted,      \* this request made a ledger submission
  prior,          \* settle calls of the same envelope that had returned
                  \* success when this request began
  overlap,        \* handlers that ran at the same time as this one
  returned,       \* successful settle calls that have returned so far
  nCalls,         \* requests started so far
  answer,        \* what submitTransaction answered to this request
  failed,         \* settle calls that have returned after a failed submission
  priorFail,      \* those of the same envelope that had returned when this
                  \* request began
  aborted,        \* the client closed the connection of this request
  keys,           \* the store keys this request has looked up and written
  vf,             \* one direct call of verify(): arguments and verdict
  sop,            \* one direct call of a replay-store operation
  marked,         \* what markPaymentAsSettled was last called with, per hash
  cleared,        \* clearCache has completed at some time
  lastEvent,      \* the most recent lifecycle event of the Redis client
  vd              \* one direct call of the request validation

vars ==
  <<sponsor, redisClient, isOpen, isConnected, booted, everReady,
    redisStore, memoryStore, applied, pc, route, payload, requirements,
    sres, vres, inflight, submitted, prior, overlap, returned, nCalls,
    answer, failed, priorFail, aborted, keys, vf, sop, marked, vd, cleared,
    lastEvent>>

cfgVars == <<sponsor, vf, sop, marked, vd, cleared>>
startVars == <<prior, overlap, priorFail, aborted>>
bootVars == <<booted, everReady>>
redisVars == <<redisClient, isOpen, isConnected, lastEvent>>
storeVars == <<redisStore, memoryStore>>
reqVars == <<route, payload, requirements>>

\* ------------------------------------------------------------------------
\* storage/redis.ts
\* ------------------------------------------------------------------------
\* A check that trusts the client's isOpen alone.
isRedisConnected_OpenOnly == redisClient /\ isOpen

isRedisConnected == isConnected /\ redisClient /\ isOpen

\* ------------------------------------------------------------------------
\* storage/replay-store.ts
\* ------------------------------------------------------------------------
SettlementRecord(h, res, r) == [txHash |-> h, resource |-> res, response |-> r]

\* A store operation without its catch block: an error raised by the Redis
\* command leaves the operation.
ServedBy_Propagating(err) ==
  IF isRedisConnected
    THEN IF err THEN "throw" ELSE "redis"
    ELSE "memory"

\* Who serves a store operation: Redis when isRedisConnected() and the
\* command does not raise; the catch block falls through to the in-memory
\* map, which also serves when Redis is not connected.
ServedBy(err) ==
  IF isRedisConnected
    THEN IF err THEN "memory" ELSE "redis"
    ELSE "memory"

Backend(err) == IF ServedBy(err) = "redis" THEN redisStore ELSE memoryStore

hasTransactionBeenUsed(h, err) == h \in DOMAIN Backend(err)

\* getSettlementRecord, read through by getCachedSettlement (the response
\* of the record, null without one) and getResourceForTransaction (its
\* resource, null without one).
getCachedSettlement(h, err) ==
  IF h \in DOMAIN Backend(err) THEN Backend(err)[h].response ELSE NoSettle

getResourceForTransaction(h, err) ==
  IF h \in DOMAIN Backend(err) THEN Backend(err)[h].resource ELSE ""

Put(store, h, rec) ==
  [k \in DOMAIN store \cup {h} |-> IF k = h THEN rec ELSE store[k]]

\* markPaymentAsSettled: setEx in Redis, or Map.set in memory on fallback.
markPaymentAsSettled(h, res, r, err) ==
  IF ServedBy(err) = "redis"
  THEN /\ redisStore' = Put(redisStore, h, SettlementRecord(h, res, r))
       /\ UNCHANGED memoryStore
  ELSE /\ memoryStore' = Put(memoryStore, h, SettlementRecord(h, res, r))
       /\ UNCHANGED redisStore

\* ------------------------------------------------------------------------
\* schemes/exact/stellar/facilitator/verify.ts
\* ------------------------------------------------------------------------
\* A claimed amount is a string: a decimal integer literal (its value here),
\* the empty string, or a string BigInt() rejects.
AmountMissing == -1
AmountNotInt == -2

\* Outcomes of server.loadAccount(sourceAccount).  balance is the native
\* balance in stroops, which Horizon reports as a decimal string of XLM with
\* seven decimals.  drift is what the double arithmetic of the conversion of
\* that string adds to it: "0.0000021" (21 stroops) gives 20, and
\* "900719925.4740995" (9007199254740995 stroops) gives 9007199254740996.
\* Amounts are compared only, so the model keeps their order, not their size.
Account(st, nat, bal, drift) ==
  [status |-> st, native |-> nat, balance |-> bal, drift |-> drift]

\* BigInt(Math.floor(parseFloat(xlmBalance.balance) * 10_000_000))
balanceStroops(acct) == acct.balance + acct.drift

\* A destination comparison that ignores the case of the address.
Upper(s) == IF s = "dest" THEN "DEST" ELSE s

DestinationDiffers_IgnoringCase(d, payTo) == Upper(d) # Upper(payTo)

\* destination !== paymentRequirements.payTo
DestinationDiffers(d, payTo) == d # payTo

\* An asset comparison that takes "XLM" and "xlm" for the native asset.
Alias(t) == IF t \in {"XLM", "xlm"} THEN "native" ELSE t

AssetDiffers_Aliased(t, required) == Alias(t) # Alias(required)

\* asset !== paymentRequirements.asset
AssetDiffers(t, required) == t # required

\* An amount check that also turns down the exact amount.
AmountBelow_OrEqual(a, m) == a <= m

\* BigInt(amount) < BigInt(paymentRequirements.maxAmountRequired)
AmountBelow(a, m) == a < m

\* verify() with the amount check moved in front of the destination check.
VerifySync_AmountFirst(pp, pr) ==
  LET sp == pp.payload
      payer == sp.sourceAccount
      Fail(reason) == [next |-> "return", res |-> VerifyResponse(FALSE, reason, payer)]
  IN
  IF pp.scheme # SCHEME \/ pr.scheme # SCHEME
    THEN Fail("unsupported_scheme")
  ELSE IF pp.network # pr.network
    THEN Fail("invalid_exact_stellar_payload_network_mismatch")
  ELSE IF sp.sourceAccount = "" \/ sp.amount = AmountMissing \/ sp.destination = ""
    THEN Fail("invalid_exact_stellar_payload_missing_required_fields")
  ELSE IF sp.amount = AmountNotInt \/ pr.maxAmountRequired = AmountNotInt
    THEN [next |-> "throw", res |-> NoVerify]
  ELSE IF AmountBelow(sp.amount, pr.maxAmountRequired)
    THEN Fail("invalid_exact_stellar_payload_amount_mismatch")
  ELSE IF DestinationDiffers(sp.destination, pr.payTo)
    THEN Fail("invalid_exact_stellar_payload_destination_mismatch")
  ELSE IF pr.asset # "" /\ AssetDiffers(sp.asset, pr.asset)
    THEN Fail("invalid_exact_stellar_payload_asset_mismatch")
  ELSE IF pp.network \notin STELLAR_NETWORKS
    THEN Fail("invalid_network")
  ELSE [next |-> "lookup", res |-> NoVerify]

\* The checks of verify() that run before the account lookup.  next is
\* "return" when a verdict was returned, "throw" when BigInt() raised, and
\* "lookup" when the function goes on to loadAccount.
VerifySync(pp, pr) ==
  LET sp == pp.payload
      payer == sp.sourceAccount
      Fail(reason) == [next |-> "return", res |-> VerifyResponse(FALSE, reason, payer)]
  IN
  IF pp.scheme # SCHEME \/ pr.scheme # SCHEME
    THEN Fail("unsupported_scheme")
  ELSE IF pp.network # pr.network
    THEN Fail("invalid_exact_stellar_payload_network_mismatch")
  ELSE IF sp.sourceAccount = "" \/ sp.amount = AmountMissing \/ sp.destination = ""
    THEN Fail("invalid_exact_stellar_payload_missing_required_fields")
  ELSE IF DestinationDiffers(sp.destination, pr.payTo)
    THEN Fail("invalid_exact_stellar_payload_destination_mismatch")
  ELSE IF sp.amount = AmountNotInt \/ pr.maxAmountRequired = AmountNotInt
    THEN [next |-> "throw", res |-> NoVerify]
  ELSE IF AmountBelow(sp.amount, pr.maxAmountRequired)
    THEN Fail("invalid_exact_stellar_payload_amount_mismatch")
  ELSE IF pr.asset # "" /\ AssetDiffers(sp.asset, pr.asset)
    THEN Fail("invalid_exact_stellar_payload_asset_mismatch")
  ELSE IF pp.network \notin STELLAR_NETWORKS
    THEN Fail("invalid_network")
  ELSE [next |-> "lookup", res |-> NoVerify]

\* The rest of verify(), once loadAccount has answered with acct.
VerifyLookup(pp, acct) ==
  LET sp == pp.payload
      payer == sp.sourceAccount
  IN
  IF acct.status = "notfound"
    THEN VerifyResponse(FALSE, "invalid_exact_stellar_payload_source_account_not_found", payer)
  ELSE IF acct.status = "error"
    THEN VerifyResponse(FALSE, "unexpected_verify_error", payer)
  ELSE IF sp.asset = "native" /\ acct.native /\ balanceStroops(acct) < sp.amount
    THEN VerifyResponse(FALSE, "insufficient_funds", payer)
  ELSE IF sp.signedTxXdr.kind = "bad"
    THEN VerifyResponse(FALSE, "invalid_exact_stellar_payload_invalid_xdr", payer)
  ELSE VerifyResponse(TRUE, "", payer)

\* ------------------------------------------------------------------------
\* schemes/exact/stellar/facilitator/settle.ts
\* ------------------------------------------------------------------------
\* The transaction settle() hands to submitTransaction: with a sponsor key,
\* a fee-bump built by the facilitator around the inner transaction of the
\* envelope; without one, the envelope as it came.
TxToSubmit(x) == IF sponsor THEN [x EXCEPT !.feeSource = "facilitator"] ELSE x

\* A settle() that hands over whatever signedTxXdr it was given.
SettleSync_SkippingParse(pp) ==
  LET payer == pp.payload.sourceAccount
      Fail(reason) ==
        [next |-> "return",
         res |-> SettleResponse(FALSE, reason, payer, NoHash, pp.network)]
  IN
  IF pp.network \notin STELLAR_NETWORKS
    THEN Fail("invalid_network")
  ELSE [next |-> "submit", res |-> NoSettle]

\* The checks of settle() that run before the submission.
SettleSync(pp) ==
  LET x == pp.payload.signedTxXdr
      payer == pp.payload.sourceAccount
      Fail(reason) ==
        [next |-> "return",
         res |-> SettleResponse(FALSE, reason, payer, NoHash, pp.network)]
  IN
  IF pp.network \notin STELLAR_NETWORKS
    THEN Fail("invalid_network")
  ELSE IF x.kind = "none"
    THEN Fail("invalid_exact_stellar_payload_missing_signed_tx_xdr")
  ELSE IF x.kind = "bad"
    THEN Fail("invalid_exact_stellar_payload_invalid_xdr")
  ELSE [next |-> "submit", res |-> NoSettle]

\* A settle() whose failure results still name the transaction it tried.
SettleResult_KeepingHash(pp, tx, outcome) ==
  LET payer == pp.payload.sourceAccount IN
  IF outcome = "ok"
    THEN SettleResponse(TRUE, "", payer, Hash(tx), pp.network)
  ELSE SettleResponse(FALSE, "settle_exact_stellar_transaction_failed", payer,
                      Hash(tx), pp.network)

\* The SettleResponse settle() builds from the answer of submitTransaction.
SettleResult(pp, tx, outcome) ==
  LET payer == pp.payload.sourceAccount IN
  IF outcome = "ok"
    THEN SettleResponse(TRUE, "", payer, Hash(tx), pp.network)
  ELSE IF sponsor
    THEN SettleResponse(FALSE, "settle_exact_stellar_fee_bump_failed", payer,
                        NoHash, pp.network)
  ELSE SettleResponse(FALSE, "settle_exact_stellar_transaction_failed", payer,
                      NoHash, pp.network)

\* ------------------------------------------------------------------------
\* The ledger (Horizon submitTransaction, loadAccount)
\* ------------------------------------------------------------------------
\* A transaction the ledger has not seen is applied, rejected, or lost to a
\* timeout.  A hash the ledger already holds is answered with the stored
\* success or with an error.  A transaction whose inner transaction was
\* applied under another hash is rejected (its sequence number is spent).
LedgerOutcomes(tx) ==
  IF Hash(tx) \in applied THEN {"ok", "rejected", "transient"}
  ELSE IF \E h \in applied : h[1] = tx.id THEN {"rejected", "transient"}
  ELSE {"ok", "rejected", "transient"}

Accounts ==
  {Account("found", TRUE, 10, 0), Account("found", TRUE, 9, 0),
   Account("found", TRUE, 10, -1), Account("found", TRUE, 9, 1),
   Account("found", FALSE, 0, 0), Account("notfound", FALSE, 0, 0),
   Account("error", FALSE, 0, 0)}

\* ------------------------------------------------------------------------
\* Initial state: the modules are loaded, startServer has not run yet.
\* ------------------------------------------------------------------------
NoAccount == Account("none", FALSE, 0, 0)

NoCall ==
  [phase |-> "none", pp |-> NoPayload, pr |-> NoRequirements,
   acct |-> NoAccount, res |-> NoVerify]

\* No replay-store operation has been called directly.
NoOp ==
  [op |-> "none", h |-> NoHash, err |-> FALSE, connected |-> FALSE,
   served |-> "none", threw |-> FALSE, found |-> FALSE, response |-> NoSettle, resource |-> ""]

\* ------------------------------------------------------------------------
\* Values of a request body, as the validation code tells them apart
\* ------------------------------------------------------------------------
\* A value is its JavaScript type and a printed form.  "garbage" is a header
\* text that is not JSON; an "unprintable" object is one that cannot be
\* converted to a string, such as {"toString": 1}.
JsValue(t, v) == [type |-> t, val |-> v]

Undefined == JsValue("undefined", "")

Null == JsValue("null", "")

Num(v) == JsValue("number", v)

Str(v) == JsValue("string", v)

Obj(v) == JsValue("object", v)

Arr == JsValue("array", "")

\* typeof v
Typeof(v) == IF v.type \in {"null", "object", "array"} THEN "object" ELSE v.type

\* !v
Falsy(v) ==
  \/ v.type \in {"undefined", "null"}
  \/ v.type = "string" /\ v.val = ""
  \/ v.type = "number" /\ v.val = "0"

\* `${v}` gives a string; for an object whose toString and valueOf give no
\* primitive it raises a TypeError.
Printable(v) == ~(v.type = "object" /\ v.val = "unprintable")

\* The value a payment assertion decodes to: an object with the four
\* top-level fields, or something without them.
Assertion(t, ver, sch, net, pl) ==
  [type |-> t, val |-> "", x402Version |-> ver, scheme |-> sch,
   network |-> net, payload |-> pl]

NoRequest ==
  [x402Version |-> Undefined, via |-> "neither",
   asn |-> Assertion("undefined", Undefined, Undefined, Undefined, Undefined),
   reqOk |-> FALSE]

NoValidation == [valid |-> FALSE, threw |-> FALSE, error |-> ""]

NoReply == [sent |-> "none", reason |-> ""]

NoCheck ==
  [phase |-> "none", op |-> "none", req |-> NoRequest, res |-> NoValidation,
   reply |-> NoReply]

NoMarks == << >>

NoKeys == [looked |-> {}, wrote |-> {}]

Loaded ==
  /\ redisClient = FALSE
  /\ isOpen = FALSE
  /\ isConnected = FALSE
  /\ booted = FALSE
  /\ everReady = FALSE
  /\ lastEvent = "none"
  /\ cleared = FALSE
  /\ redisStore = <<>>
  /\ memoryStore = <<>>
  /\ applied = {}
  /\ pc = [p \in Procs |-> "idle"]
  /\ route = [p \in Procs |-> "none"]
  /\ payload = [p \in Procs |-> NoPayload]
  /\ requirements = [p \in Procs |-> NoRequirements]
  /\ sres = [p \in Procs |-> NoSettle]
  /\ vres = [p \in Procs |-> NoVerify]
  /\ inflight = [p \in Procs |-> NoXdr]
  /\ submitted = [p \in Procs |-> FALSE]
  /\ prior = [p \in Procs |-> {}]
  /\ overlap = [p \in Procs |-> {}]
  /\ returned = {}
  /\ nCalls = 0
  /\ answer = [p \in Procs |-> "none"]
  /\ failed = {}
  /\ priorFail = [p \in Procs |-> {}]
  /\ aborted = [p \in Procs |-> FALSE]
  /\ keys = [p \in Procs |-> NoKeys]

Init ==
  /\ sponsor \in BOOLEAN
  /\ vf = NoCall
  /\ sop = NoOp
  /\ marked = NoMarks
  /\ vd = NoCheck
  /\ Loaded

\* ------------------------------------------------------------------------
\* storage/redis.ts: connectRedis and the client's lifecycle events
\* ------------------------------------------------------------------------
\* startServer awaits connectRedis() before it listens.  Without REDIS_URL
\* no client is created; otherwise connect() succeeds (the 'ready' handler
\* has set isConnected) or fails (the catch block clears isConnected).
ConnectRedis ==
  /\ ~booted
  /\ booted' = TRUE
  /\ \E url \in BOOLEAN, ok \in BOOLEAN :
       /\ redisClient' = url
       /\ isOpen' = (url /\ ok)
       /\ isConnected' = (url /\ ok)
       /\ everReady' = (url /\ ok)
       /\ lastEvent' = IF url /\ ok THEN "ready" ELSE "none"
  /\ UNCHANGED <<cfgVars, storeVars, applied, pc, reqVars, sres, vres,
                 inflight, submitted, startVars, returned, nCalls, answer,
                 failed, keys>>

RedisEvent(ev, connected, open) ==
  /\ booted /\ redisClient /\ isOpen
  /\ lastEvent' = ev
  /\ isConnected' = connected
  /\ isOpen' = open
  /\ UNCHANGED <<cfgVars, redisClient, bootVars, storeVars, applied, pc,
                 reqVars, sres, vres, inflight, submitted, startVars,
                 returned, nCalls, answer, failed, keys>>

\* redisClient.on("ready")
RedisReady == RedisEvent("ready", TRUE, TRUE)

\* redisClient.on("error") and redisClient.on("reconnecting")
RedisError == RedisEvent("error", FALSE, TRUE)

\* redisClient.on("end")
RedisEnd == RedisEvent("end", FALSE, FALSE)

\* ------------------------------------------------------------------------
\* Request handlers
\* ------------------------------------------------------------------------
Active(q) == pc[q] \notin {"idle", "done"}

\* A request arrives and takes the first free handler slot.
Begin(p, rt, pp, pr) ==
  /\ booted
  /\ ~Active(p)
  /\ \A q \in Procs : q < p => Active(q)
  /\ nCalls < MaxCalls
  /\ nCalls' = nCalls + 1
  /\ route' = [route EXCEPT ![p] = rt]
  /\ payload' = [payload EXCEPT ![p] = pp]
  /\ requirements' = [requirements EXCEPT ![p] = pr]
  /\ prior' = [prior EXCEPT ![p] =
                 {s \in returned : s.xdr = pp.payload.signedTxXdr}]
  /\ overlap' = [q \in Procs |->
                   IF q = p THEN {r \in Procs \ {p} : Active(r)}
                   ELSE IF Active(q) THEN overlap[q] \cup {p}
                   ELSE overlap[q] \ {p}]
  /\ priorFail' = [priorFail EXCEPT ![p] =
                     {f \in failed : f.xdr = pp.payload.signedTxXdr}]
  /\ aborted' = [aborted EXCEPT ![p] = FALSE]
  /\ answer' = [answer EXCEPT ![p] = "none"]
  /\ keys' = [keys EXCEPT ![p] = NoKeys]

\* A route that keys the store by the envelope together with the
\* destination the caller claims.
LookupHash_FromClaims(pp) ==
  IF pp.payload.signedTxXdr.kind # "none" /\ pp.network \in STELLAR_NETWORKS
    THEN <<pp.payload.signedTxXdr.id, pp.payload.destination>>
    ELSE NoHash

\* The hash both routes look up: taken when signedTxXdr is present and the
\* network is a known one.
LookupHash(pp) ==
  IF pp.payload.signedTxXdr.kind # "none" /\ pp.network \in STELLAR_NETWORKS
    THEN getTxHashFromXdr(pp.payload.signedTxXdr)
    ELSE NoHash

\* res.json(response) of the settle route.
SettleReply(p, r) ==
  /\ sres' = [sres EXCEPT ![p] = r]
  /\ pc' = [pc EXCEPT ![p] = "done"]
  /\ returned' = IF r.success
                   THEN returned \cup
                          {[xdr |-> payload[p].payload.signedTxXdr,
                            resource |-> requirements[p].resource,
                            res |-> r]}
                   ELSE returned

\* res.json(response) of the verify route.
VerifyReply(p, r) ==
  /\ vres' = [vres EXCEPT ![p] = r]
  /\ pc' = [pc EXCEPT ![p] = "done"]

\* settle() up to its first await: a failure result, which the route sends
\* back, or the transaction is handed to server.submitTransaction.
SettleCall(p, pp) ==
  LET s == SettleSync(pp) IN
  IF s.next = "return"
    THEN /\ sres' = [sres EXCEPT ![p] = s.res]
         /\ pc' = [pc EXCEPT ![p] = "done"]
         /\ inflight' = [inflight EXCEPT ![p] = NoXdr]
         /\ submitted' = [submitted EXCEPT ![p] = FALSE]
         /\ UNCHANGED returned
    ELSE /\ inflight' = [inflight EXCEPT ![p] = TxToSubmit(pp.payload.signedTxXdr)]
         /\ submitted' = [submitted EXCEPT ![p] = TRUE]
         /\ pc' = [pc EXCEPT ![p] = "submitting"]
         /\ sres' = [sres EXCEPT ![p] = NoSettle]
         /\ UNCHANGED returned

\* settleRoute, steps 1 to 3 up to the first await.
SettleStartFrom(p, payloads) ==
  \E pp \in payloads, res \in Resources :
    /\ Begin(p, "settle", pp, PaymentRequirements(res))
    /\ vres' = [vres EXCEPT ![p] = NoVerify]
    /\ IF LookupHash(pp) # NoHash
         THEN /\ pc' = [pc EXCEPT ![p] = "getCached"]
              /\ sres' = [sres EXCEPT ![p] = NoSettle]
              /\ inflight' = [inflight EXCEPT ![p] = NoXdr]
              /\ submitted' = [submitted EXCEPT ![p] = FALSE]
              /\ UNCHANGED returned
         ELSE SettleCall(p, pp)
    /\ UNCHANGED <<cfgVars, redisVars, bootVars, storeVars, applied, failed>>

SettleStart(p) == SettleStartFrom(p, RoutePayloads)

\* settleRoute: await getCachedSettlement(txHash); a record found is sent
\* back as it is.
GetCached(p) ==
  /\ pc[p] = "getCached"
  /\ \E err \in BOOLEAN :
       LET h == LookupHash(payload[p]) IN
       IF h \in DOMAIN Backend(err)
         THEN SettleReply(p, Backend(err)[h].response)
         ELSE /\ pc' = [pc EXCEPT ![p] = "hasUsed"]
              /\ UNCHANGED <<sres, returned>>
  /\ UNCHANGED <<cfgVars, redisVars, bootVars, storeVars, applied, reqVars,
                 vres, inflight, submitted, startVars, nCalls, answer, failed>>
  /\ keys' = [keys EXCEPT ![p].looked = @ \cup {LookupHash(payload[p])}]

\* settleRoute: await hasTransactionBeenUsed(txHash); when unused, the
\* handler enters settle().
HasUsed(p) ==
  /\ pc[p] = "hasUsed"
  /\ \E err \in BOOLEAN :
       IF hasTransactionBeenUsed(LookupHash(payload[p]), err)
         THEN /\ pc' = [pc EXCEPT ![p] = "getResource"]
              /\ UNCHANGED <<sres, inflight, submitted, returned>>
         ELSE SettleCall(p, payload[p])
  /\ UNCHANGED <<cfgVars, redisVars, bootVars, storeVars, applied, reqVars,
                 vres, startVars, nCalls, answer, failed>>
  /\ keys' = [keys EXCEPT ![p].looked = @ \cup {LookupHash(payload[p])}]

\* A route that also records the rejection it sends.
GetResource_Marking(p) ==
  /\ pc[p] = "getResource"
  /\ SettleReply(p, SettleResponse(FALSE,
         "invalid_exact_stellar_payload_transaction_already_used",
         payload[p].payload.sourceAccount, NoHash, payload[p].network))
  /\ markPaymentAsSettled(LookupHash(payload[p]), requirements[p].resource,
                          SettleResponse(FALSE,
         "invalid_exact_stellar_payload_transaction_already_used",
         payload[p].payload.sourceAccount, NoHash, payload[p].network), TRUE)
  /\ UNCHANGED <<cfgVars, redisVars, bootVars, applied, reqVars,
                 vres, inflight, submitted, startVars, nCalls, answer, failed>>
  /\ keys' = [keys EXCEPT ![p].looked = @ \cup {LookupHash(payload[p])}]

\* settleRoute: await getResourceForTransaction(txHash), logged only, then
\* the already-used rejection.
GetResource(p) ==
  /\ pc[p] = "getResource"
  /\ SettleReply(p, SettleResponse(FALSE,
         "invalid_exact_stellar_payload_transaction_already_used",
         payload[p].payload.sourceAccount, NoHash, payload[p].network))
  /\ UNCHANGED <<cfgVars, redisVars, bootVars, storeVars, applied, reqVars,
                 vres, inflight, submitted, startVars, nCalls, answer, failed>>
  /\ keys' = [keys EXCEPT ![p].looked = @ \cup {LookupHash(payload[p])}]

\* A route that stores every result of settle(), failures included, under
\* the hash it looks up.
SubmitResult_CachingFailures(p) ==
  /\ pc[p] = "submitting"
  /\ \E o \in LedgerOutcomes(inflight[p]) :
       LET r == SettleResult(payload[p], inflight[p], o) IN
       /\ applied' = IF o = "ok" THEN applied \cup {Hash(inflight[p])}
                                 ELSE applied
       /\ answer' = [answer EXCEPT ![p] = o]
       /\ failed' = IF o = "ok" THEN failed
                     ELSE failed \cup
                            {[xdr |-> payload[p].payload.signedTxXdr,
                              resource |-> requirements[p].resource,
                              outcome |-> o, res |-> r]}
       /\ IF r.success /\ r.transaction # NoHash
            THEN /\ pc' = [pc EXCEPT ![p] = "mark"]
                 /\ sres' = [sres EXCEPT ![p] = r]
                 /\ UNCHANGED <<returned, storeVars>>
            ELSE /\ SettleReply(p, r)
                 /\ markPaymentAsSettled(LookupHash(payload[p]),
                                         requirements[p].resource, r, FALSE)
  /\ UNCHANGED <<cfgVars, redisVars, bootVars, reqVars, vres,
                 inflight, submitted, startVars, nCalls, keys>>

\* submitTransaction answers; settle() returns its result to the route.
SubmitResult(p) ==
  /\ pc[p] = "submitting"
  /\ \E o \in LedgerOutcomes(inflight[p]) :
       LET r == SettleResult(payload[p], inflight[p], o) IN
       /\ applied' = IF o = "ok" THEN applied \cup {Hash(inflight[p])}
                                 ELSE applied
       /\ answer' = [answer EXCEPT ![p] = o]
       /\ failed' = IF o = "ok" THEN failed
                     ELSE failed \cup
                            {[xdr |-> payload[p].payload.signedTxXdr,
                              resource |-> requirements[p].resource,
                              outcome |-> o, res |-> r]}
       /\ IF r.success /\ r.transaction # NoHash
            THEN /\ pc' = [pc EXCEPT ![p] = "mark"]
                 /\ sres' = [sres EXCEPT ![p] = r]
                 /\ UNCHANGED returned
            ELSE SettleReply(p, r)
  /\ UNCHANGED <<cfgVars, redisVars, bootVars, storeVars, reqVars, vres,
                 inflight, submitted, startVars, nCalls, keys>>

\* A route that gives up its remaining work once the client has gone.
Mark_SkippedWhenAborted(p) ==
  /\ pc[p] = "mark"
  /\ IF aborted[p]
       THEN UNCHANGED storeVars
       ELSE \E err \in BOOLEAN :
              markPaymentAsSettled(sres[p].transaction,
                                   requirements[p].resource, sres[p], err)
  /\ SettleReply(p, sres[p])
  /\ UNCHANGED <<cfgVars, redisVars, bootVars, applied, reqVars, vres,
                 inflight, submitted, startVars, nCalls, answer, failed>>
  /\ keys' = [keys EXCEPT ![p].wrote =
                 IF aborted[p] THEN @ ELSE @ \cup {sres[p].transaction}]

\* settleRoute: await markPaymentAsSettled(response.transaction, resource,
\* response), then res.json(response).
Mark(p) ==
  /\ pc[p] = "mark"
  /\ \E err \in BOOLEAN :
       markPaymentAsSettled(sres[p].transaction, requirements[p].resource,
                            sres[p], err)
  /\ SettleReply(p, sres[p])
  /\ UNCHANGED <<cfgVars, redisVars, bootVars, applied, reqVars, vres,
                 inflight, submitted, startVars, nCalls, answer, failed>>
  /\ keys' = [keys EXCEPT ![p].wrote = @ \cup {sres[p].transaction}]

\* verify() up to its first await, and what the route makes of it.
VerifyCall(p, pp, pr) ==
  LET s == VerifySync(pp, pr) IN
  IF s.next = "return" THEN VerifyReply(p, s.res)
  ELSE IF s.next = "throw"
    THEN VerifyReply(p, VerifyResponse(FALSE, "unexpected_verify_error",
                                       pp.payload.sourceAccount))
  ELSE /\ pc' = [pc EXCEPT ![p] = "loadAccount"]
       /\ vres' = [vres EXCEPT ![p] = NoVerify]

\* verifyRoute, steps 1 to 3 up to the first await.
VerifyStartFrom(p, payloads) ==
  \E pp \in payloads, res \in {"/x"} :
    /\ Begin(p, "verify", pp, PaymentRequirements(res))
    /\ sres' = [sres EXCEPT ![p] = NoSettle]
    /\ inflight' = [inflight EXCEPT ![p] = NoXdr]
    /\ submitted' = [submitted EXCEPT ![p] = FALSE]
    /\ IF LookupHash(pp) # NoHash
         THEN /\ pc' = [pc EXCEPT ![p] = "vHasUsed"]
              /\ vres' = [vres EXCEPT ![p] = NoVerify]
         ELSE VerifyCall(p, pp, PaymentRequirements(res))
    /\ UNCHANGED <<cfgVars, redisVars, bootVars, storeVars, applied, returned,
                   failed>>

VerifyStart(p) == VerifyStartFrom(p, RoutePayloads)

\* verifyRoute: await hasTransactionBeenUsed(txHash).
VHasUsed(p) ==
  /\ pc[p] = "vHasUsed"
  /\ \E err \in BOOLEAN :
       IF hasTransactionBeenUsed(LookupHash(payload[p]), err)
         THEN VerifyReply(p, VerifyResponse(FALSE,
                "invalid_exact_stellar_payload_transaction_already_used",
                payload[p].payload.sourceAccount))
         ELSE VerifyCall(p, payload[p], requirements[p])
  /\ UNCHANGED <<cfgVars, redisVars, bootVars, storeVars, applied, reqVars,
                 sres, inflight, submitted, startVars, returned, nCalls,
                 answer, failed>>
  /\ keys' = [keys EXCEPT ![p].looked = @ \cup {LookupHash(payload[p])}]

\* A verify route that marks the transaction it has found valid.
LoadAccount_Marking(p) ==
  /\ pc[p] = "loadAccount"
  /\ \E acct \in Accounts :
       LET v == VerifyLookup(payload[p], acct) IN
       /\ VerifyReply(p, v)
       /\ IF v.isValid
            THEN markPaymentAsSettled(LookupHash(payload[p]),
                                      requirements[p].resource, NoSettle, FALSE)
            ELSE UNCHANGED storeVars
  /\ UNCHANGED <<cfgVars, redisVars, bootVars, applied, reqVars,
                 sres, inflight, submitted, startVars, returned, nCalls,
                 answer, failed, keys>>

\* loadAccount answers; verify() returns its verdict to the route.
LoadAccount(p) ==
  /\ pc[p] = "loadAccount"
  /\ \E acct \in Accounts : VerifyReply(p, VerifyLookup(payload[p], acct))
  /\ UNCHANGED <<cfgVars, redisVars, bootVars, storeVars, applied, reqVars,
                 sres, inflight, submitted, startVars, returned, nCalls,
                 answer, failed, keys>>

Next ==
  \/ ConnectRedis
  \/ RedisReady
  \/ RedisError
  \/ RedisEnd
  \/ \E p \in Procs : SettleStart(p)
  \/ \E p \in Procs : GetCached(p)
  \/ \E p \in Procs : HasUsed(p)
  \/ \E p \in Procs : GetResource(p)
  \/ \E p \in Procs : SubmitResult(p)
  \/ \E p \in Procs : Mark(p)
  \/ \E p \in Procs : VerifyStart(p)
  \/ \E p \in Procs : VHasUsed(p)
  \/ \E p \in Procs : LoadAccount(p)

Spec == Init /\ [][Next]_vars

TypeOK ==
  /\ sponsor \in BOOLEAN
  /\ nCalls \in 0..MaxCalls
  /\ \A p \in Procs : pc[p] \in {"idle", "getCached", "hasUsed", "getResource",
                                 "submitting", "mark", "vHasUsed",
                                 "loadAccount", "done"}

\* ------------------------------------------------------------------------
\* Properties of the settle and verify routes
\* ------------------------------------------------------------------------
AlreadyUsed == "invalid_exact_stellar_payload_transaction_already_used"

Envelope_(p) == payload[p].payload.signedTxXdr

SettleDone(p) == route[p] = "settle" /\ pc[p] = "done"
VerifyDone(p) == route[p] = "verify" /\ pc[p] = "done"

\* The store holds, in Redis or in memory, a record under h with this
\* resource and this result.
Holds(h, res, r) ==
  \/ h \in DOMAIN redisStore /\ redisStore[h].resource = res
                             /\ redisStore[h].response = r
  \/ h \in DOMAIN memoryStore /\ memoryStore[h].resource = res
                              /\ memoryStore[h].response = r

\* C1: idempotence of settle.  A settle call that began after a settle of
\* the same envelope and resource had returned success returns that same
\* result and makes no ledger submission, with or without a sponsor key.
C1_SettleIdempotent ==
  \A p \in Procs :
    SettleDone(p) =>
      \A s \in prior[p] :
        s.resource = requirements[p].resource =>
          sres[p] = s.res /\ ~submitted[p]

\* C2: cross-resource rejection.  A settle call that began after a settle of
\* the same envelope for another resource had returned success fails with
\* the already-used reason and makes no ledger submission.
C2_CrossResourceRejected ==
  \A p \in Procs :
    SettleDone(p) =>
      \A s \in prior[p] :
        s.resource # requirements[p].resource =>
          /\ ~sres[p].success
          /\ sres[p].errorReason = AlreadyUsed
          /\ ~submitted[p]

\* C3: at most one submission under concurrency.  Of two settle calls that
\* overlap in time and carry the same envelope, at most one makes a ledger
\* submission.
C3_AtMostOneSubmission ==
  \A p \in Procs : \A q \in overlap[p] :
    (/\ route[p] = "settle" /\ route[q] = "settle"
     /\ Envelope_(p) = Envelope_(q))
      => ~(submitted[p] /\ submitted[q])

\* C4: recording after success.  When a settle call that submitted returns
\* success, the store then holds a record with the call's resource and the
\* returned result under getTxHashFromXdr of the caller's envelope.
C4_RecordedAfterSuccess ==
  [][\A p \in Procs :
       (/\ route[p] = "settle" /\ pc[p] # "done" /\ pc'[p] = "done"
        /\ submitted[p] /\ sres'[p].success)
         => Holds(getTxHashFromXdr(Envelope_(p)), requirements[p].resource,
                  sres[p])']_vars

\* C5: replay rejection on verify.  A /verify request that began after a
\* settle of the same envelope had returned success is answered isValid =
\* false with the already-used reason.
C5_VerifyRejectsSettled ==
  \A p \in Procs :
    (VerifyDone(p) /\ prior[p] # {}) =>
      ~vres[p].isValid /\ vres[p].invalidReason = AlreadyUsed

\* The payment an envelope makes meets the requirements.
Satisfies(x, pr) ==
  /\ x.destination = pr.payTo
  /\ x.amount >= pr.maxAmountRequired
  /\ x.asset = pr.asset

\* C8: validation before settlement.  settle submits an envelope only if
\* its destination, amount and asset satisfy the requirements of that call.
C8_ValidatedBeforeSubmission ==
  \A p \in Procs :
    (route[p] = "settle" /\ submitted[p]) =>
      Satisfies(Envelope_(p), requirements[p])

\* C9: write-once records.  No step replaces or removes the record of a
\* transaction hash, and no hash has a record in both backends.
C9_WriteOnce ==
  [][/\ \A h \in DOMAIN redisStore :
          h \in DOMAIN redisStore' /\ redisStore'[h] = redisStore[h]
     /\ \A h \in DOMAIN memoryStore :
          h \in DOMAIN memoryStore' /\ memoryStore'[h] = memoryStore[h]
     /\ DOMAIN redisStore' \cap DOMAIN memoryStore' = {}]_vars

\* C10: fallback idempotence.  When Redis has never been ready, a settle
\* call that began after a settle of the same envelope and resource had
\* returned success returns that same result, without a ledger submission
\* and without the unexpected-error result.
C10_FallbackIdempotent ==
  \A p \in Procs :
    (SettleDone(p) /\ ~everReady) =>
      \A s \in prior[p] :
        s.resource = requirements[p].resource =>
          /\ sres[p] = s.res
          /\ ~submitted[p]
          /\ sres[p].errorReason # "unexpected_settle_error"

\* The ledger has applied no transaction built on this envelope.
NeverApplied(x) == ~\E h \in applied : h[1] = x.id

\* C12: transient failures are not cached.  The step in which a settle call
\* learns that its submission failed for a transient reason ends the call
\* and leaves Redis and the in-memory map as they were; and a settle call
\* that began after such a failure of the same envelope makes a ledger
\* submission, unless the ledger has meanwhile applied the transaction.
C12_TransientNotCached ==
  /\ [][\A p \in Procs :
          (pc[p] = "submitting" /\ pc'[p] # "submitting"
           /\ answer'[p] = "transient")
            => pc'[p] = "done" /\ ~sres'[p].success /\ UNCHANGED storeVars]_vars
  /\ [](\A p \in Procs :
          (/\ SettleDone(p)
           /\ \E f \in priorFail[p] : f.outcome = "transient"
           /\ NeverApplied(Envelope_(p)))
            => submitted[p])

\* A settle call retried an envelope whose earlier submission had failed
\* for a transient reason, and reached the ledger again.
C12_Witness ==
  \E p \in Procs :
    /\ SettleDone(p)
    /\ \E f \in priorFail[p] : f.outcome = "transient"
    /\ NeverApplied(Envelope_(p))
    /\ submitted[p]
    /\ redisStore = <<>> /\ memoryStore = <<>>

\* C13: terminal rejections are cached.  The failure result of a settle
\* call whose submission the ledger rejected is held by the store, and a
\* settle call that began after it with the same envelope and resource
\* returns that failure without a ledger submission.
C13_TerminalRejectionCached ==
  /\ \A f \in failed :
       f.outcome = "rejected" =>
         Holds(getTxHashFromXdr(f.xdr), f.resource, f.res)
  /\ \A p \in Procs :
       SettleDone(p) =>
         \A f \in priorFail[p] :
           (f.outcome = "rejected" /\ f.resource = requirements[p].resource)
             => sres[p] = f.res /\ ~submitted[p]

\* This step is one of verify request p: its arrival, or a continuation of
\* its handler.
VerifyStep(p) ==
  \/ /\ nCalls' # nCalls /\ route'[p] = "verify"
     /\ ~Active(p) /\ \A q \in Procs : q < p => Active(q)
  \/ /\ route[p] = "verify" /\ Active(p) /\ pc'[p] # pc[p]

\* C16: verify is read-only.  No step of a /verify request, whatever its
\* verdict and whatever runs beside it, changes the records held by Redis
\* or by the in-memory map.
C16_VerifyReadOnly ==
  [][(\E p \in Procs : VerifyStep(p)) => UNCHANGED storeVars]_vars

\* A /verify request was answered valid while the store held records.
C16_Witness ==
  \E p \in Procs :
    /\ VerifyDone(p) /\ vres[p].isValid
    /\ DOMAIN redisStore \cup DOMAIN memoryStore # {}

\* ------------------------------------------------------------------------
\* /settle requests whose client may close the connection
\* ------------------------------------------------------------------------
\* The client of a settle request goes away while the submission is in
\* flight or while its result is being recorded.  settleRoute registers no
\* listener for it and none of its awaits depends on the request, so the
\* handler's position and data stay as they are.
Abort(p) ==
  /\ route[p] = "settle"
  /\ pc[p] \in {"submitting", "mark"}
  /\ ~aborted[p]
  /\ aborted' = [aborted EXCEPT ![p] = TRUE]
  /\ UNCHANGED <<cfgVars, redisVars, bootVars, storeVars, applied, pc,
                 reqVars, sres, vres, inflight, submitted, prior, overlap,
                 priorFail, returned, nCalls, answer, failed, keys>>

NextAbort ==
  \/ ConnectRedis
  \/ RedisReady
  \/ RedisError
  \/ RedisEnd
  \/ \E p \in Procs : SettleStart(p)
  \/ \E p \in Procs : GetCached(p)
  \/ \E p \in Procs : HasUsed(p)
  \/ \E p \in Procs : GetResource(p)
  \/ \E p \in Procs : SubmitResult(p)
  \/ \E p \in Procs : Mark(p)
  \/ \E p \in Procs : Abort(p)

SpecAbort == Init /\ [][NextAbort]_vars

\* C14: a submitted transaction is never forgotten.  Whenever a settle
\* handler has finished after the ledger accepted its submission, the store
\* holds a record under the hash of the submitted transaction, whether or
\* not the client had closed the connection.
C14_NeverForgotten ==
  \A p \in Procs :
    (SettleDone(p) /\ answer[p] = "ok") =>
      /\ sres[p].success
      /\ sres[p].transaction = Hash(inflight[p])
      /\ sres[p].transaction \in DOMAIN redisStore \cup DOMAIN memoryStore

\* The client went away during the request, the ledger accepted the
\* submission, and the handler finished with the record written.
C14_Witness ==
  \E p \in Procs :
    /\ SettleDone(p) /\ aborted[p] /\ answer[p] = "ok"
    /\ Holds(sres[p].transaction, requirements[p].resource, sres[p])

\* ------------------------------------------------------------------------
\* Progress of the handlers
\* ------------------------------------------------------------------------
\* Every continuation that is ready to run is run by the event loop, and a
\* Redis command answers or raises.  submitTransaction is taken to answer
\* or fail in the end.  loadAccount is awaited as it is: neither verify()
\* nor verifyRoute sets a timeout on it, so nothing makes it answer.
Fairness ==
  \A p \in Procs :
    /\ WF_vars(GetCached(p))
    /\ WF_vars(HasUsed(p))
    /\ WF_vars(GetResource(p))
    /\ WF_vars(SubmitResult(p))
    /\ WF_vars(Mark(p))
    /\ WF_vars(VHasUsed(p))

SpecLive == Init /\ [][Next]_vars /\ Fairness

\* C15: no hanging on the ledger.  Every verify and settle call that has
\* begun eventually returns a result, even when a ledger call does not
\* complete.
C15_NoHanging ==
  \A p \in Procs : Active(p) ~> (pc[p] = "done")

\* ------------------------------------------------------------------------
\* verify() called directly, over a range of assertions and requirements
\* ------------------------------------------------------------------------
VerifyEnvelopes ==
  {EnvGood, EnvWrongDest, EnvLowAmount, EnvWrongAsset, NoXdr, BadXdr}

VerifyPayloads ==
  {[scheme |-> sc, network |-> nw, payload |-> StellarPayload(x, s, a, d, t)] :
     sc \in {SCHEME, "upto"}, nw \in {"stellar-testnet", "base"},
     x \in VerifyEnvelopes, s \in {"S1", "S2", ""},
     a \in {9, 10, 11, AmountMissing, AmountNotInt},
     d \in {"DEST", "dest", "OTHER", ""}, t \in {"native", "XLM", "USDC"}}

VerifyRequirements ==
  {[scheme |-> sc, network |-> nw, maxAmountRequired |-> m, resource |-> "/x",
    payTo |-> d, asset |-> t] :
     sc \in {SCHEME, "upto"}, nw \in {"stellar-testnet", "base"},
     m \in {10, AmountNotInt}, d \in {"DEST", "OTHER"},
     t \in {"native", "USDC", ""}}

mainVars ==
  <<sponsor, redisVars, bootVars, storeVars, applied, pc, reqVars, sres,
    vres, inflight, submitted, startVars, returned, nCalls, answer, failed,
    keys, sop, marked, vd, cleared>>

InitVerify ==
  /\ sponsor = FALSE
  /\ sop = NoOp
  /\ marked = NoMarks
  /\ vd = NoCheck
  /\ Loaded
  /\ vf \in {[phase |-> "call", pp |-> pp, pr |-> pr, acct |-> NoAccount,
              res |-> NoVerify] :
               pp \in VerifyPayloads, pr \in VerifyRequirements}

\* verify(payload, paymentRequirements) runs up to loadAccount.
VfCall ==
  /\ vf.phase = "call"
  /\ LET s == VerifySync(vf.pp, vf.pr) IN
       vf' = [vf EXCEPT !.phase = IF s.next = "return" THEN "done" ELSE s.next,
                        !.res = s.res]
  /\ UNCHANGED mainVars

\* loadAccount answers and verify() returns.
VfLookup ==
  /\ vf.phase = "lookup"
  /\ \E acct \in Accounts :
       vf' = [vf EXCEPT !.phase = "done", !.acct = acct,
                        !.res = VerifyLookup(vf.pp, acct)]
  /\ UNCHANGED mainVars

NextVerify == VfCall \/ VfLookup

SpecVerify == InitVerify /\ [][NextVerify]_vars

\* C6: trust-minimization, favourable claims.  verify never returns
\* isValid = true for a signed envelope that pays another destination than
\* payTo, less than maxAmountRequired, or another asset than the required
\* one, whatever the claimed fields say.
C6_EnvelopeMustSatisfy ==
  LET x == vf.pp.payload.signedTxXdr IN
  (/\ vf.phase = "done" /\ x.kind = "tx"
   /\ \/ x.destination # vf.pr.payTo
      \/ vf.pr.maxAmountRequired # AmountNotInt
           /\ x.amount < vf.pr.maxAmountRequired
      \/ vf.pr.asset # "" /\ x.asset # vf.pr.asset)
    => ~vf.res.isValid

\* C7: trust-minimization, claimed against signed.  verify returns
\* isValid = false whenever a claimed field (source, destination, amount,
\* asset) differs from what the signed envelope says.
C7_ClaimedMustMatchSigned ==
  LET sp == vf.pp.payload
      x == sp.signedTxXdr
  IN
  (/\ vf.phase = "done" /\ x.kind = "tx"
   /\ \/ sp.sourceAccount # x.source
      \/ sp.destination # x.destination
      \/ sp.amount # x.amount
      \/ sp.asset # x.asset)
    => ~vf.res.isValid

\* ------------------------------------------------------------------------
\* The replay-store operations called directly, in every backend state
\* ------------------------------------------------------------------------
StoreHashes == {Hash(EnvGood), Hash(EnvWrongDest)}

StoreResponses ==
  {SettleResponse(TRUE, "", "S1", Hash(EnvGood), "stellar-testnet"),
   SettleResponse(FALSE, "Transaction failed", "S1", NoHash, "")}

routeVars ==
  <<applied, pc, reqVars, sres, vres, inflight, submitted, startVars,
    returned, nCalls, answer, failed, keys>>

InitStore ==
  /\ sponsor = FALSE
  /\ vf = NoCall
  /\ sop = NoOp
  /\ marked = NoMarks
  /\ vd = NoCheck
  /\ Loaded

\* What the caller of a store operation gets: who served it, whether an
\* error left the operation, and the value returned.
Called(op, h, err) ==
  [op |-> op, h |-> h, err |-> err, connected |-> isRedisConnected,
   served |-> ServedBy(err), threw |-> (ServedBy(err) = "throw"),
   found |-> FALSE, response |-> NoSettle, resource |-> ""]

StHas ==
  /\ \E h \in StoreHashes, err \in BOOLEAN :
       sop' = [Called("has", h, err) EXCEPT
                 !.found = hasTransactionBeenUsed(h, err)]
  /\ UNCHANGED <<sponsor, vf, vd, marked, cleared, redisVars, bootVars, storeVars,
                 routeVars>>

StGetCached ==
  /\ \E h \in StoreHashes, err \in BOOLEAN :
       sop' = [Called("getCached", h, err) EXCEPT
                 !.response = getCachedSettlement(h, err)]
  /\ UNCHANGED <<sponsor, vf, vd, marked, cleared, redisVars, bootVars, storeVars,
                 routeVars>>

StGetResource ==
  /\ \E h \in StoreHashes, err \in BOOLEAN :
       sop' = [Called("getResource", h, err) EXCEPT
                 !.resource = getResourceForTransaction(h, err)]
  /\ UNCHANGED <<sponsor, vf, vd, marked, cleared, redisVars, bootVars, storeVars,
                 routeVars>>

StMark ==
  /\ \E h \in StoreHashes, res \in Resources, r \in StoreResponses,
        err \in BOOLEAN :
       /\ sop' = [Called("mark", h, err) EXCEPT
                    !.response = r, !.resource = res]
       /\ markPaymentAsSettled(h, res, r, err)
       /\ marked' = (h :> [resource |-> res, response |-> r,
                            again |-> h \in DOMAIN marked]) @@ marked
  /\ UNCHANGED <<sponsor, vf, vd, cleared, redisVars, bootVars, routeVars>>

NextStore ==
  \/ ConnectRedis
  \/ RedisReady
  \/ RedisError
  \/ RedisEnd
  \/ StHas
  \/ StGetCached
  \/ StGetResource
  \/ StMark

SpecStore == InitStore /\ [][NextStore]_vars

\* C11: store operations never fail outward.  Each of the four operations
\* returns to its caller in every backend state, and when Redis is not
\* connected or raises during the call the operation is served by the
\* in-memory map: its value is the map's, its write lands in the map.
C11_StoreNeverFails ==
  sop.op # "none" =>
    /\ ~sop.threw
    /\ sop.served \in {"redis", "memory"}
    /\ (sop.err \/ ~sop.connected) =>
         /\ sop.served = "memory"
         /\ sop.op = "has" => sop.found = (sop.h \in DOMAIN memoryStore)
         /\ sop.op = "getCached" =>
              sop.response = IF sop.h \in DOMAIN memoryStore
                               THEN memoryStore[sop.h].response ELSE NoSettle
         /\ sop.op = "getResource" =>
              sop.resource = IF sop.h \in DOMAIN memoryStore
                               THEN memoryStore[sop.h].resource ELSE ""
         /\ sop.op = "mark" =>
              /\ sop.h \in DOMAIN memoryStore
              /\ memoryStore[sop.h] =
                   SettlementRecord(sop.h, sop.resource, sop.response)

\* Redis raised during a write while connected, and the map took the write.
C11_Witness ==
  /\ sop.op = "mark" /\ sop.err /\ sop.connected
  /\ sop.served = "memory"
  /\ sop.h \in DOMAIN memoryStore

\* ------------------------------------------------------------------------
\* Properties of verify() as a function
\* ------------------------------------------------------------------------
UnsupportedScheme == "unsupported_scheme"
NetworkMismatch == "invalid_exact_stellar_payload_network_mismatch"
MissingFields == "invalid_exact_stellar_payload_missing_required_fields"
DestinationMismatch == "invalid_exact_stellar_payload_destination_mismatch"
AmountMismatch == "invalid_exact_stellar_payload_amount_mismatch"
AssetMismatch == "invalid_exact_stellar_payload_asset_mismatch"
AccountNotFound == "invalid_exact_stellar_payload_source_account_not_found"
InsufficientFunds == "insufficient_funds"

\* What each check of the list finds wrong with the call in vf.
SchemeWrong == vf.pp.scheme # vf.pr.scheme \/ vf.pp.scheme # SCHEME
NetworkWrong == vf.pp.network # vf.pr.network
FieldsWrong ==
  \/ vf.pp.payload.sourceAccount = ""
  \/ vf.pp.payload.amount = AmountMissing
  \/ vf.pp.payload.destination = ""
DestinationWrong == vf.pp.payload.destination # vf.pr.payTo
AmountsAreIntegers ==
  vf.pp.payload.amount >= 0 /\ vf.pr.maxAmountRequired >= 0
AmountWrong ==
  AmountsAreIntegers /\ vf.pp.payload.amount < vf.pr.maxAmountRequired
AssetWrong == vf.pr.asset # "" /\ vf.pp.payload.asset # vf.pr.asset

Returned == vf.phase = "done"
Reason == vf.res.invalidReason

\* C17: verify never throws.  Every call of verify(assertion, requirements)
\* ends with a verdict returned, also when the claimed amount or
\* maxAmountRequired is not an integer literal.
C17_VerifyNeverThrows == vf.phase # "throw"

C19_AmountBoundary ==
  (/\ vf.phase \in {"lookup", "done"}
   /\ ~SchemeWrong /\ ~NetworkWrong /\ ~FieldsWrong /\ ~DestinationWrong
   /\ AmountsAreIntegers)
    => /\ vf.pp.payload.amount < vf.pr.maxAmountRequired
            => vf.phase = "done" /\ ~vf.res.isValid /\ Reason = AmountMismatch
       /\ vf.pp.payload.amount >= vf.pr.maxAmountRequired
            => Reason # AmountMismatch

\* An amount one below maxAmountRequired was turned down by the amount check.
C19_Witness ==
  /\ Returned /\ ~SchemeWrong /\ ~NetworkWrong /\ ~FieldsWrong
  /\ ~DestinationWrong
  /\ vf.pp.payload.amount = vf.pr.maxAmountRequired - 1
  /\ Reason = AmountMismatch

\* C20: destination exactness.  Once the scheme, network and required-field
\* checks have passed, a claimed destination that is not the same string as
\* payTo gives isValid = false with the destination-mismatch reason, and
\* that reason is never given when the two strings are the same.
C20_DestinationExact ==
  /\ (/\ vf.phase # "call" /\ vf.phase # "none"
      /\ ~SchemeWrong /\ ~NetworkWrong /\ ~FieldsWrong /\ DestinationWrong)
       => Returned /\ ~vf.res.isValid /\ Reason = DestinationMismatch
  /\ ~DestinationWrong => Reason # DestinationMismatch

\* A destination that differs from payTo in the case of its letters only
\* was turned down by the destination check.
C20_Witness ==
  /\ Returned /\ ~SchemeWrong /\ ~NetworkWrong /\ ~FieldsWrong
  /\ vf.pp.payload.destination = "dest" /\ vf.pr.payTo = "DEST"
  /\ Reason = DestinationMismatch

C22_SourceAccountOutcomes ==
  LET sp == vf.pp.payload
      acct == vf.acct
      Short == sp.asset = "native" /\ acct.native /\ acct.balance < sp.amount
  IN
  Returned =>
    /\ acct.status = "notfound" => Reason = AccountNotFound
    /\ (acct.status = "found" /\ Short)
         => ~vf.res.isValid /\ Reason = InsufficientFunds
    /\ vf.res.isValid =>
         /\ acct.status = "found"
         /\ vf.res.payer = sp.sourceAccount
         /\ ~Short


\* ------------------------------------------------------------------------
\* Request validation: types/verify/facilitator.ts and the routes' steps 1-2
\* ------------------------------------------------------------------------
SUPPORTED_KINDS == {<<"exact", "stellar-testnet">>}

schemes == {"exact"}

stellarNetworks == {"stellar-testnet", "stellar"}

Invalid(msg) == [valid |-> FALSE, threw |-> FALSE, error |-> msg]

Valid == [valid |-> TRUE, threw |-> FALSE, error |-> ""]

Thrown == [valid |-> FALSE, threw |-> TRUE, error |-> "TypeError"]

\* validatePaymentPayload(payload)
validatePaymentPayload(obj) ==
  IF Falsy(obj) \/ Typeof(obj) # "object"
    THEN Invalid("expected JSON object")
  ELSE IF obj.x402Version = Undefined
    THEN Invalid("missing x402Version")
  ELSE IF obj.x402Version # Num("1")
    THEN IF Printable(obj.x402Version)
           THEN Invalid("unsupported x402Version") ELSE Thrown
  ELSE IF Falsy(obj.scheme) \/ Typeof(obj.scheme) # "string"
    THEN Invalid("missing or invalid scheme")
  ELSE IF Falsy(obj.network) \/ Typeof(obj.network) # "string"
    THEN Invalid("missing or invalid network")
  ELSE IF Falsy(obj.payload) \/ Typeof(obj.payload) # "object"
    THEN Invalid("missing or invalid payload")
  ELSE IF <<obj.scheme.val, obj.network.val>> \notin SUPPORTED_KINDS
    THEN Invalid("Unsupported (scheme, network) combination")
  ELSE Valid

\* A paymentHeader is the base64 text of a JSON text; decoding gives the
\* text back and JSON.parse gives its value, or fails on a text that is not
\* JSON.
PaymentHeader(a) == [base64 |-> a]

Base64Decode(h) == h.base64

JSONparse(text) ==
  IF text.type = "garbage" THEN [threw |-> TRUE, value |-> Undefined]
  ELSE [threw |-> FALSE, value |-> text]

\* decodeAndValidatePaymentHeader(paymentHeader)
decodeAndValidatePaymentHeader(paymentHeader) ==
  LET json == JSONparse(Base64Decode(paymentHeader))
      obj == json.value
  IN IF json.threw
       THEN Invalid("failed to parse JSON")
     ELSE IF Falsy(obj) \/ Typeof(obj) # "object"
       THEN Invalid("expected JSON object")
     ELSE IF obj.x402Version = Undefined
       THEN Invalid("missing x402Version")
     ELSE IF obj.x402Version # Num("1")
       THEN IF Printable(obj.x402Version)
              THEN Invalid("unsupported x402Version") ELSE Thrown
     ELSE IF Falsy(obj.scheme) \/ Typeof(obj.scheme) # "string"
       THEN Invalid("missing or invalid scheme")
     ELSE IF Falsy(obj.network) \/ Typeof(obj.network) # "string"
       THEN Invalid("missing or invalid network")
     ELSE IF Falsy(obj.payload) \/ Typeof(obj.payload) # "object"
       THEN Invalid("missing or invalid payload")
     ELSE IF <<obj.scheme.val, obj.network.val>> \notin SUPPORTED_KINDS
       THEN Invalid("Unsupported (scheme, network) combination")
     ELSE Valid

\* extractPaymentPayload(paymentHeader, paymentPayload): the decoded object
\* is preferred, then the header.
extractPaymentPayload(req) ==
  IF req.via = "payload" /\ ~Falsy(req.asn) /\ Typeof(req.asn) = "object"
    THEN validatePaymentPayload(req.asn)
  ELSE IF req.via = "header"
    THEN decodeAndValidatePaymentHeader(PaymentHeader(req.asn))
  ELSE Invalid("Either paymentHeader or paymentPayload is required")

\* PaymentPayloadSchema: the path of the first issue zod reports for a
\* paymentPayload, << >> when there is none.
PaymentPayloadSchema(a) ==
  IF a.type # "object" THEN <<"paymentPayload">>
  ELSE IF a.x402Version # Num("1") THEN <<"paymentPayload", "x402Version">>
  ELSE IF ~(a.scheme.type = "string" /\ a.scheme.val \in schemes)
    THEN <<"paymentPayload", "scheme">>
  ELSE IF ~(a.network.type = "string" /\ a.network.val \in stellarNetworks)
    THEN <<"paymentPayload", "network">>
  ELSE IF a.payload # Obj("stellar") THEN <<"paymentPayload", "payload">>
  ELSE << >>

\* FacilitatorRequestSchema.safeParse(req.body): success, and the path of
\* the first issue.  The either-or refinement reports the empty path.
FacilitatorRequestSchema(req) ==
  LET pp == IF req.via = "payload" THEN PaymentPayloadSchema(req.asn)
            ELSE << >>
  IN IF req.x402Version # Num("1")
       THEN [success |-> FALSE, path |-> <<"x402Version">>]
     ELSE IF pp # << >> THEN [success |-> FALSE, path |-> pp]
     ELSE IF ~req.reqOk
       THEN [success |-> FALSE, path |-> <<"paymentRequirements">>]
     ELSE IF req.via = "neither" THEN [success |-> FALSE, path |-> << >>]
     ELSE [success |-> TRUE, path |-> << >>]

\* errorPath.includes(word), for paths made of the field names above.
Includes(path, word) == \E i \in DOMAIN path : path[i] = word

\* The routes' mapping of the first issue to an error code.
ZodReason(path) ==
  IF Includes(path, "x402Version") THEN "invalid_x402_version"
  ELSE IF Includes(path, "paymentRequirements")
    THEN "invalid_payment_requirements"
  ELSE IF Includes(path, "network") THEN "invalid_network"
  ELSE IF Includes(path, "scheme") THEN "invalid_scheme"
  ELSE "invalid_payload"

Json(reason) == [sent |-> "json", reason |-> reason]

\* The handler is an async function: an exception outside its try blocks
\* rejects its promise and no response is written.
Unhandled == [sent |-> "unhandled", reason |-> ""]

\* Steps 1 and 2 passed: the handler goes on to the replay check.
Continue == [sent |-> "none", reason |-> ""]

\* Steps 1 and 2 of settleRoute and of verifyRoute.
RouteValidation(req) ==
  LET parseResult == FacilitatorRequestSchema(req)
      validation == extractPaymentPayload(req)
  IN IF ~parseResult.success THEN Json(ZodReason(parseResult.path))
     ELSE IF validation.threw THEN Unhandled
     ELSE IF ~validation.valid THEN Json("invalid_payload")
     ELSE Continue

Versions == {Undefined, Num("1"), Num("2"), Str("1"), Obj("unprintable")}

SchemeValues == {Undefined, Str(""), Str("exact"), Str("upto"), Num("1")}

NetworkValues ==
  {Undefined, Str(""), Str("stellar-testnet"), Str("stellar"), Str("base")}

PayloadValues == {Undefined, Null, Obj("stellar"), Arr, Str("x")}

Assertions ==
  {Assertion("object", ver, sch, net, pl) :
     ver \in Versions, sch \in SchemeValues, net \in NetworkValues,
     pl \in PayloadValues}
  \cup {Assertion(t, Undefined, Undefined, Undefined, Undefined) :
          t \in {"null", "array", "string", "garbage"}}

Requests ==
  {[x402Version |-> top, via |-> via, asn |-> a, reqOk |-> ok] :
     top \in {Num("1"), Num("2")}, via \in {"header", "payload", "neither"},
     a \in Assertions, ok \in BOOLEAN}

InitValidate ==
  /\ sponsor = FALSE
  /\ vf = NoCall
  /\ sop = NoOp
  /\ marked = NoMarks
  /\ Loaded
  /\ vd \in {[NoCheck EXCEPT !.phase = "call", !.req = r] : r \in Requests}

VdUnchanged == UNCHANGED <<sponsor, vf, sop, marked, cleared, redisVars, bootVars,
                           storeVars, routeVars>>

\* validatePaymentPayload(value) called on the decoded value.
VdValidate ==
  /\ vd.phase = "call"
  /\ vd.req.asn.type # "garbage"
  /\ vd' = [vd EXCEPT !.phase = "done", !.op = "validate",
                      !.res = validatePaymentPayload(vd.req.asn)]
  /\ VdUnchanged

\* decodeAndValidatePaymentHeader(header) called on the encoded value.
VdDecode ==
  /\ vd.phase = "call"
  /\ vd' = [vd EXCEPT !.phase = "done", !.op = "decode",
                      !.res = decodeAndValidatePaymentHeader(
                                PaymentHeader(vd.req.asn))]
  /\ VdUnchanged

\* POST /settle with the request as body, up to the end of step 2.
VdSettle ==
  /\ vd.phase = "call"
  /\ (vd.req.via = "payload" => vd.req.asn.type # "garbage")
  /\ vd' = [vd EXCEPT !.phase = "done", !.op = "settle",
                      !.reply = RouteValidation(vd.req)]
  /\ VdUnchanged

\* POST /verify with the request as body, up to the end of step 2.
VdVerify ==
  /\ vd.phase = "call"
  /\ (vd.req.via = "payload" => vd.req.asn.type # "garbage")
  /\ vd' = [vd EXCEPT !.phase = "done", !.op = "verify",
                      !.reply = RouteValidation(vd.req)]
  /\ VdUnchanged

NextValidate == VdValidate \/ VdDecode \/ VdSettle \/ VdVerify

SpecValidate == InitValidate /\ [][NextValidate]_vars

\* The assertion is well formed: an object with x402Version the number 1,
\* scheme and network non-empty strings, payload an object (typeof), and
\* (scheme, network) a supported kind.
WellFormed(a) ==
  /\ a.type = "object"
  /\ a.x402Version = Num("1")
  /\ a.scheme.type = "string" /\ a.scheme.val # ""
  /\ a.network.type = "string" /\ a.network.val # ""
  /\ a.payload.type \in {"object", "array"}
  /\ <<a.scheme.val, a.network.val>> \in SUPPORTED_KINDS

\* C23: request validation accepts exactly the well-formed assertions.
\* validatePaymentPayload and decodeAndValidatePaymentHeader return valid if
\* and only if the input is well formed, and every other input gets a
\* validation-failure value, never an exception.
C23_ValidationExact ==
  (vd.phase = "done" /\ vd.op \in {"validate", "decode"}) =>
    /\ ~vd.res.threw
    /\ vd.res.valid <=> WellFormed(vd.req.asn)


\* What is wrong with an assertion, as the reason its rejection is to carry.
SupportedSchemes == {k[1] : k \in SUPPORTED_KINDS}

SupportedNetworks == {k[2] : k \in SUPPORTED_KINDS}

Expected(a) ==
  {r \in {"invalid_x402_version", "invalid_scheme", "invalid_network",
          "invalid_payload"} :
     \/ r = "invalid_x402_version" /\ a.x402Version # Num("1")
     \/ r = "invalid_scheme"
          /\ ~(a.scheme.type = "string" /\ a.scheme.val \in SupportedSchemes)
     \/ r = "invalid_network"
          /\ ~(a.network.type = "string"
               /\ a.network.val \in SupportedNetworks)
     \/ r = "invalid_payload" /\ a.payload.type \notin {"object", "array"}}

\* A route was called with an assertion object, by header or decoded, in a
\* request that is otherwise in order, and the assertion can be printed.
RoutedAssertion ==
  /\ vd.phase = "done"
  /\ vd.op \in {"settle", "verify"}
  /\ vd.req.via \in {"header", "payload"}
  /\ vd.req.x402Version = Num("1")
  /\ vd.req.reqOk
  /\ vd.req.asn.type = "object"
  /\ Printable(vd.req.asn.x402Version)

\* C24: rejection reasons of request validation.  On /verify and /settle
\* an assertion with a version other than 1, a missing or unsupported
\* scheme, a missing or unsupported network, or a missing or non-object
\* payload is rejected with the reason of one of its defects, by header and
\* decoded alike.
C24_RejectionReasons ==
  (RoutedAssertion /\ Expected(vd.req.asn) # {}) =>
    /\ vd.reply.sent = "json"
    /\ vd.reply.reason \in Expected(vd.req.asn)

\* C25: every request gets one structured result.  No /verify or /settle
\* request ends in an exception that leaves the handler without a JSON
\* response.
C25_StructuredResult ==
  (vd.phase = "done" /\ vd.op \in {"settle", "verify"}) =>
    vd.reply.sent # "unhandled"


\* ------------------------------------------------------------------------
\* Properties of what the settle route answers and submits
\* ------------------------------------------------------------------------
\* C26: shape of settle results.  Every /settle response with success=false
\* has an empty transaction and an errorReason, and every response with
\* success=true has a non-empty ledger hash, cached responses included.
C26_SettleResultShape ==
  \A p \in Procs :
    SettleDone(p) =>
      /\ ~sres[p].success =>
           (sres[p].transaction = NoHash /\ sres[p].errorReason # "")
      /\ sres[p].success => sres[p].transaction # NoHash

\* A success served from the cache, without a submission of its own.
C26_Witness ==
  \E p \in Procs :
    SettleDone(p) /\ sres[p].success /\ ~submitted[p] /\ prior[p] # {}


\* FeeBumpTransaction.innerTransaction: the transaction a fee-bump wraps.
InnerTransaction(x) == [x EXCEPT !.feeSource = "none"]

\* C27: what settle submits.  With a sponsor key the submitted transaction
\* is a fee-bump of the sponsor whose inner transaction is exactly the
\* caller's envelope; without one it is exactly the caller's envelope; no
\* part of the envelope, an outer wrapper of the caller's included, is
\* altered or dropped.
C27_SubmitsEnvelope ==
  \A p \in Procs :
    (route[p] = "settle" /\ submitted[p]) =>
      IF sponsor
        THEN /\ inflight[p].feeSource = "facilitator"
             /\ InnerTransaction(inflight[p]) = Envelope_(p)
        ELSE inflight[p] = Envelope_(p)


\* ------------------------------------------------------------------------
\* The routes called with one envelope under different claimed fields
\* ------------------------------------------------------------------------
IdentityPayloads ==
  {PaymentPayload(Honest(EnvWrongDest)),
   PaymentPayload(Favourable(EnvWrongDest)),
   PaymentPayload(StellarPayload(EnvWrongDest, "S2", 11, "ELSE", "USDC"))}

NextIdentity ==
  \/ ConnectRedis
  \/ RedisReady
  \/ RedisError
  \/ RedisEnd
  \/ \E p \in Procs : SettleStartFrom(p, IdentityPayloads)
  \/ \E p \in Procs : GetCached(p)
  \/ \E p \in Procs : HasUsed(p)
  \/ \E p \in Procs : GetResource(p)
  \/ \E p \in Procs : SubmitResult(p)
  \/ \E p \in Procs : Mark(p)
  \/ \E p \in Procs : VerifyStartFrom(p, IdentityPayloads)
  \/ \E p \in Procs : VHasUsed(p)
  \/ \E p \in Procs : LoadAccount(p)

SpecIdentity == Init /\ [][NextIdentity]_vars

\* Same signed envelope and same network.
SameEnvelope(pp, qq) ==
  /\ pp.payload.signedTxXdr = qq.payload.signedTxXdr
  /\ pp.network = qq.network

ReadOfMarked ==
  /\ sop.op \in {"has", "getCached", "getResource"}
  /\ sop.h \in DOMAIN marked

\* C29: store overwrite.  After markPaymentAsSettled(id, r2, resp2) on an
\* identity that already had a record, getCachedSettlement(id) returns
\* resp2, getResourceForTransaction(id) returns r2, and the store holds a
\* single record for id.
C29_StoreOverwrite ==
  (ReadOfMarked /\ marked[sop.h].again) =>
    /\ sop.op = "getCached" => sop.response = marked[sop.h].response
    /\ sop.op = "getResource" => sop.resource = marked[sop.h].resource
    /\ ~(sop.h \in DOMAIN redisStore /\ sop.h \in DOMAIN memoryStore)

\* C30: store round trip.  After markPaymentAsSettled(id, r, resp), with no
\* later write to id, hasTransactionBeenUsed(id) is true,
\* getCachedSettlement(id) is resp and getResourceForTransaction(id) is r;
\* for an id never marked they return false, null and null.
C30_StoreRoundTrip ==
  /\ ReadOfMarked =>
       /\ sop.op = "has" => sop.found
       /\ sop.op = "getCached" => sop.response = marked[sop.h].response
       /\ sop.op = "getResource" => sop.resource = marked[sop.h].resource
  /\ (sop.op \in {"has", "getCached", "getResource"}
        /\ sop.h \notin DOMAIN marked) =>
       /\ ~sop.found
       /\ sop.response = NoSettle
       /\ sop.resource = ""


\* ------------------------------------------------------------------------
\* storage/replay-store.ts: clearCache
\* ------------------------------------------------------------------------
\* clearCache(): with Redis connected the keys are deleted there and the
\* function returns; on a Redis error, or without Redis, the map is cleared.
clearCache(err) ==
  IF ServedBy(err) = "redis"
  THEN /\ redisStore' = << >>
       /\ UNCHANGED memoryStore
  ELSE /\ memoryStore' = << >>
       /\ UNCHANGED redisStore

StClear ==
  /\ \E err \in BOOLEAN :
       /\ sop' = Called("clear", NoHash, err)
       /\ clearCache(err)
  /\ marked' = NoMarks
  /\ cleared' = TRUE
  /\ UNCHANGED <<sponsor, vf, vd, redisVars, bootVars, routeVars>>

NextClear ==
  \/ ConnectRedis
  \/ RedisReady
  \/ RedisError
  \/ RedisEnd
  \/ StHas
  \/ StGetCached
  \/ StMark
  \/ StClear

SpecClear == InitStore /\ [][NextClear]_vars

\* C31: clearCache removes everything.  After clearCache() has completed,
\* for every id not written since, hasTransactionBeenUsed(id) is false and
\* getCachedSettlement(id) is null, whichever backend serves the lookup.
C31_ClearRemovesAll ==
  (cleared /\ sop.op \in {"has", "getCached"} /\ sop.h \notin DOMAIN marked)
    => (~sop.found /\ sop.response = NoSettle)


\* C32: a record survives connectivity changes.  Once markPaymentAsSettled
\* has completed for an id, every later hasTransactionBeenUsed(id) returns
\* true and every later getCachedSettlement(id) returns the recorded
\* result, whatever Redis events came in between.
C32_RecordSurvives ==
  \A h \in DOMAIN marked :
    /\ (sop.op = "has" /\ sop.h = h) => sop.found
    /\ (sop.op = "getCached" /\ sop.h = h) =>
         sop.response = marked[h].response

\* C33: existence and lookup agree.  In any store state, for every id,
\* hasTransactionBeenUsed(id) is true exactly when getCachedSettlement(id)
\* is non-null and exactly when getResourceForTransaction(id) is non-null,
\* however each of the calls is served.
C33_ExistenceAgrees ==
  \A h \in StoreHashes : \A e1, e2, e3 \in BOOLEAN :
    /\ hasTransactionBeenUsed(h, e1) <=> (getCachedSettlement(h, e2) # NoSettle)
    /\ hasTransactionBeenUsed(h, e1) <=> (getResourceForTransaction(h, e3) # "")


\* ------------------------------------------------------------------------
\* storage/redis.ts: the connection state seen by the store operations
\* ------------------------------------------------------------------------
\* redisClient.on("reconnecting")
RedisReconnecting == RedisEvent("reconnecting", FALSE, TRUE)

\* disconnectRedis(): quit() closes an open client, then isConnected is
\* cleared; without an open client nothing is done.
DisconnectRedis ==
  /\ booted /\ redisClient /\ isOpen
  /\ lastEvent' = "disconnect"
  /\ isOpen' = FALSE
  /\ isConnected' = FALSE
  /\ UNCHANGED <<cfgVars, redisClient, bootVars, storeVars, applied, pc,
                 reqVars, sres, vres, inflight, submitted, startVars,
                 returned, nCalls, answer, failed, keys>>

NextRedis ==
  \/ ConnectRedis
  \/ RedisReady
  \/ RedisError
  \/ RedisReconnecting
  \/ RedisEnd
  \/ DisconnectRedis
  \/ StHas
  \/ StGetCached
  \/ StGetResource
  \/ StMark

SpecRedis == InitStore /\ [][NextRedis]_vars

\* C39: Redis connection state machine.  isRedisConnected() is true only
\* when the most recent lifecycle event was 'ready' and the client is open;
\* connectRedis() returns whether or not the connection was made; and a
\* store operation called while isRedisConnected() is false is served by
\* the in-memory map and leaves the Redis records as they are.
C39_ConnectionState ==
  /\ [](/\ isRedisConnected => (lastEvent = "ready" /\ isOpen)
        /\ lastEvent # "none" => booted
        /\ (booted /\ ~everReady) => ~isRedisConnected
        /\ (sop.op # "none" /\ ~sop.connected) => sop.served = "memory")
  /\ [][(sop' # sop /\ ~isRedisConnected) => redisStore' = redisStore]_vars

\* A record was written to the map while the client, once ready, was
\* reconnecting.
C39_Witness ==
  /\ everReady
  /\ lastEvent = "reconnecting"
  /\ sop.op = "mark" /\ ~sop.connected /\ sop.served = "memory"
  /\ sop.h \in DOMAIN memoryStore


\* ------------------------------------------------------------------------
\* The settle route on its own, with every kind of envelope and network
\* ------------------------------------------------------------------------
\* What settle() can be handed: two payments of different transactions, an
\* absent and an unparseable envelope, and a network outside
\* STELLAR_NETWORKS.
SettlePayloads ==
  {PaymentPayload(Honest(EnvGood)), PaymentPayload(Favourable(EnvWrongDest)),
   PaymentPayload(Honest(NoXdr)), PaymentPayload(Honest(BadXdr)),
   [PaymentPayload(Honest(EnvGood)) EXCEPT !.network = "base"]}

NextSettle ==
  \/ ConnectRedis
  \/ RedisReady
  \/ RedisError
  \/ RedisEnd
  \/ \E p \in Procs : SettleStartFrom(p, SettlePayloads)
  \/ \E p \in Procs : GetCached(p)
  \/ \E p \in Procs : HasUsed(p)
  \/ \E p \in Procs : GetResource(p)
  \/ \E p \in Procs : SubmitResult(p)
  \/ \E p \in Procs : Mark(p)

SpecSettle == Init /\ [][NextSettle]_vars

\* The store holds a record of a successful settlement with this response
\* under the hash the request looks up.
FoundInStore(p) ==
  \E store \in {redisStore, memoryStore} :
    /\ LookupHash(payload[p]) \in DOMAIN store
    /\ store[LookupHash(payload[p])].response = sres[p]

\* C34: no success without a submission.  A /settle response with
\* success=true comes from a submission of the request's envelope that the
\* ledger accepted in this call, or from a record found in the store; a
\* request without a signed envelope, with an unparseable one or with an
\* unsupported network never gets success=true.
C34_SuccessNeedsSubmission ==
  \A p \in Procs :
    (SettleDone(p) /\ sres[p].success) =>
      /\ \/ /\ submitted[p] /\ answer[p] = "ok"
            /\ inflight[p] = TxToSubmit(Envelope_(p))
            /\ Hash(inflight[p]) \in applied
         \/ ~submitted[p] /\ FoundInStore(p)
      /\ Envelope_(p).kind = "tx"
      /\ payload[p].network \in STELLAR_NETWORKS

\* A success served from the store to a request whose envelope an earlier
\* call had settled.
C34_Witness ==
  \E p \in Procs :
    /\ SettleDone(p) /\ sres[p].success /\ ~submitted[p]
    /\ \E s \in returned : s.xdr = Envelope_(p)


\* The request that arrives in this step takes slot p.
Took(p) ==
  /\ nCalls' = nCalls + 1
  /\ ~Active(p)
  /\ \A q \in Procs : q < p => Active(q)

\* The handler in slot p sends its response in this step.
Finished(p) == pc'[p] = "done" /\ (pc[p] # "done" \/ Took(p))

PreSubmissionReasons ==
  {"invalid_network", "invalid_exact_stellar_payload_missing_signed_tx_xdr",
   "invalid_exact_stellar_payload_invalid_xdr", AlreadyUsed}

\* C35: failures before submission have no side effects.  A settle call
\* that ends with an unsupported network, a missing or unparseable
\* envelope, or the already-used rejection has attempted no submission and
\* has written nothing to the store, in its last step or before.
C35_FailuresLeaveNoTrace ==
  [][\A p \in Procs :
       (Finished(p) /\ route'[p] = "settle"
          /\ sres'[p].errorReason \in PreSubmissionReasons) =>
         /\ ~submitted'[p]
         /\ inflight'[p] = NoXdr
         /\ keys'[p].wrote = {}
         /\ UNCHANGED <<storeVars, applied>>]_vars

\* An already-used rejection has been sent.
C35_Witness ==
  \E p \in Procs :
    /\ SettleDone(p) /\ sres[p].errorReason = AlreadyUsed
    /\ ~submitted[p] /\ keys[p].looked # {}


\* The record a store holds for a hash, as a set: empty without one.
RecordOf(store, h) == IF h \in DOMAIN store THEN {store[h]} ELSE {}

\* The record of hash h is created, changed or removed in this step.
RecordTouched(h) ==
  \/ RecordOf(redisStore', h) # RecordOf(redisStore, h)
  \/ RecordOf(memoryStore', h) # RecordOf(memoryStore, h)

\* C36: per-identity isolation.  A step that creates, changes or removes the
\* record of an identity is the store write of a settle call for that very
\* identity: no settle call touches the record of another identity.
C36_IdentityIsolation ==
  [][\A h \in DOMAIN redisStore' \cup DOMAIN memoryStore'
               \cup DOMAIN redisStore \cup DOMAIN memoryStore :
       RecordTouched(h) =>
         \E p \in Procs :
           /\ route[p] = "settle" /\ pc[p] = "mark" /\ pc'[p] = "done"
           /\ h = LookupHash(payload[p])]_vars


\* ------------------------------------------------------------------------
\* Properties of the order of the routes' stages
\* ------------------------------------------------------------------------
\* The handler in slot p turns to the ledger in this step.
ContactsLedger(p) ==
  pc'[p] \in {"loadAccount", "submitting"} /\ pc'[p] # pc[p]

\* The ledger is contacted only straight after the replay lookup (or, where
\* no hash can be taken, straight after extraction), and a request rejected
\* as already used was rejected by the lookup without a ledger call.
StagesInOrder ==
  \A p \in Procs :
    /\ ContactsLedger(p) =>
         \/ pc[p] \in {"hasUsed", "vHasUsed"}
         \/ Took(p) /\ LookupHash(payload'[p]) = NoHash
    /\ (Finished(p) /\ AlreadyUsed \in {sres'[p].errorReason,
                                        vres'[p].invalidReason}) =>
         /\ pc[p] \in {"getResource", "vHasUsed"}
         /\ ~submitted'[p]

\* C37: stage ordering in the routes.  The ledger is contacted only after
\* the replay lookup and never for a request rejected before it, and a
\* /verify of an envelope that has been settled is answered already-used,
\* whatever its claimed fields would make of the later checks.
C37_StageOrdering ==
  /\ [](\A p \in Procs :
          (VerifyDone(p) /\ prior[p] # {}) =>
            vres[p].invalidReason = AlreadyUsed)
  /\ [][StagesInOrder]_vars


\* ------------------------------------------------------------------------
\* The two forms of an assertion
\* ------------------------------------------------------------------------
\* The request that carries the same assertion in the other form.
OtherForm(req) ==
  [req EXCEPT !.via = IF @ = "header" THEN "payload" ELSE "header"]

\* C38: encoded and decoded assertions are treated alike.  A /verify or
\* /settle request that carries an assertion object as a base64
\* paymentHeader and the request that carries the same object as
\* paymentPayload get the same answer from validation and extraction (the
\* same status and reason, or both go on with the same assertion to the
\* replay lookup and the ledger).
C38_EncodedDecodedAlike ==
  (/\ vd.phase = "done"
   /\ vd.op \in {"settle", "verify"}
   /\ vd.req.via \in {"header", "payload"}
   /\ vd.req.asn.type = "object") =>
    vd.reply = RouteValidation(OtherForm(vd.req))

====
